---- MODULE Spec2Model ----
(***************************************************************************)
(* Model of scripts/processing.py: the subtree extractor, the subtree      *)
(* indexer, the word and tree distance calculators, the flattener, the     *)
(* edit script generator and the run() pipeline that chains them.          *)
(*                                                                         *)
(* Python values are represented as follows.                               *)
(*   node      <<parentLabel, label, depth>> (label-only mode) or          *)
(*             <<parentLabel, label, depth, text>> (text-aware mode);      *)
(*             Python index k is TLA+ index k+1, so node[2] is node[3].    *)
(*   label     a string; an attribute label [name, value] (a Python list)  *)
(*             is the string "name=value", recognised by IsList.           *)
(*   tree      a sequence of nodes; a fragment is a tree                   *)
(*   dict      [keys |-> insertion-ordered sequence of the keys,           *)
(*              at   |-> function from key to value,                       *)
(*              registered |-> history of the keys written by rename]      *)
(*   None      the empty tuple (no fragment is ever empty)                 *)
(*   inf       the number Inf, above every finite cost of the model        *)
(***************************************************************************)
EXTENDS Integers, Sequences, FiniteSets, TLC

VARIABLES pc, tree1, tree2, algorithm, subTreesA, subTreesB, dictA, dictB,
          dictCostsA, dictCostsB, ListofTreesA, ListofTreesB, edit_script,
          stringA, stringB, wf, treeA, treeB, dist

vars == <<pc, tree1, tree2, algorithm, subTreesA, subTreesB, dictA, dictB,
          dictCostsA, dictCostsB, ListofTreesA, ListofTreesB, edit_script,
          stringA, stringB, wf, treeA, treeB, dist>>

(***************************************************************************)
(* Bounds of the model.                                                    *)
(***************************************************************************)
MaxSourceLen == 2
MaxTargetLen == 3
MaxTreeLen == 4
MaxDepth == 2
MaxFrags == 3
MaxFragLen == 3
MaxStrLen == 4

Inf == 999

None == <<>>

\* All sequences over S of length lo..hi.
SeqsOf(S, lo, hi) == UNION {[1..n -> S] : n \in lo..hi}

Last(s) == s[Len(s)]

Min3(a, b, c) == IF a <= b /\ a <= c THEN a ELSE IF b <= c THEN b ELSE c

(***************************************************************************)
(* Node universes the inputs are drawn from.                               *)
(***************************************************************************)
\* The nodes preprocess_xml emits for <a/> and <a><b/></a>.
NodeUniverse ==
    {<<"0", "a", 0>>, <<"a", "0", 1>>, <<"a", "b", 1>>, <<"b", "0", 2>>}

\* Nodes of every depth 0..MaxDepth, two labels per depth.
DepthNodes == {<<"0", l, d>> : l \in {"a", "b"}, d \in 0..MaxDepth}

\* Nodes for the distance calculator: tags, a terminal marker, an attribute.
DistNodes ==
    {<<"0", "a", 0>>, <<"a", "b", 1>>, <<"a", "id=1", 1>>, <<"b", "0", 2>>}

IsList(label) == label \in {"id=1"}

\* preprocess_xml appends the text field under algorithm 'wagner'.
WithText(tree, alg) ==
    IF alg = "wagner" THEN [k \in 1..Len(tree) |-> Append(tree[k], "")]
    ELSE tree

(***************************************************************************)
(* Python dict.                                                            *)
(***************************************************************************)
EmptyDict == [keys |-> <<>>, at |-> <<>>, registered |-> <<>>]

HasKey(d, k) == \E i \in 1..Len(d.keys) : d.keys[i] = k

\* d[k] = v: a new key goes last, an existing key keeps its place.
DictSet(d, k, v) ==
    [d EXCEPT !.keys = IF HasKey(d, k) THEN @ ELSE Append(@, k),
              !.at = (k :> v) @@ @]

(***************************************************************************)
(* subTrees (processing.py 45-62).                                         *)
(***************************************************************************)
Close(current_subtree, acc) ==
    IF current_subtree # <<>> THEN Append(acc, current_subtree) ELSE acc

RECURSIVE SubTreesScan(_, _, _, _, _)
SubTreesScan(tree, k, current_subtree, current_level, acc) ==
    IF k > Len(tree) THEN Close(current_subtree, acc)
    ELSE LET node == tree[k] IN
         IF node[3] >= current_level
         THEN SubTreesScan(tree, k + 1, Append(current_subtree, node),
                           current_level, acc)
         ELSE SubTreesScan(tree, k + 1, <<node>>, node[3],
                           Close(current_subtree, acc))

\* Faulty variant of subTrees: the trailing "if current_subtree: append" is
\* left out.
RECURSIVE SubTreesScanNoTail(_, _, _, _, _)
SubTreesScanNoTail(tree, k, current_subtree, current_level, acc) ==
    IF k > Len(tree) THEN acc
    ELSE LET node == tree[k] IN
         IF node[3] >= current_level
         THEN SubTreesScanNoTail(tree, k + 1, Append(current_subtree, node),
                                 current_level, acc)
         ELSE SubTreesScanNoTail(tree, k + 1, <<node>>, node[3],
                                 Close(current_subtree, acc))

subTreesNoTail(tree, acc) ==
    SubTreesScanNoTail(tree, 1, <<>>, tree[1][3], acc)

\* Faulty variant of subTrees: "node[2] > current_level" in place of ">=".
RECURSIVE SubTreesScanStrict(_, _, _, _, _)
SubTreesScanStrict(tree, k, current_subtree, current_level, acc) ==
    IF k > Len(tree) THEN Close(current_subtree, acc)
    ELSE LET node == tree[k] IN
         IF node[3] > current_level
         THEN SubTreesScanStrict(tree, k + 1, Append(current_subtree, node),
                                 current_level, acc)
         ELSE SubTreesScanStrict(tree, k + 1, <<node>>, node[3],
                                 Close(current_subtree, acc))

subTreesStrict(tree, acc) ==
    SubTreesScanStrict(tree, 1, <<>>, tree[1][3], acc)

\* tree is non-empty: tree[0] raises IndexError otherwise (RunSubTrees).
subTrees(tree, acc) ==
    SubTreesScan(tree, 1, <<>>, tree[1][3], acc)

(***************************************************************************)
(* rename (processing.py 64-87).  index and i are Python (0-based).        *)
(***************************************************************************)
RECURSIVE rename(_, _, _, _, _)
RECURSIVE RenameLoop(_, _, _, _, _, _)

RenameLoop(trees, index, i, new_name, prefix, dictionary) ==
    IF i >= Len(trees) THEN dictionary
    ELSE IF trees[i + 1][1][3] > trees[index + 1][1][3]
         THEN RenameLoop(trees, index, i + 1, new_name, prefix,
                         rename(trees, i, new_name, prefix, dictionary))
         ELSE dictionary

rename(trees, index, parent, prefix, dictionary) ==
    IF index >= Len(trees) THEN dictionary
    ELSE LET current_tree == trees[index + 1]
             new_name == prefix \o ToString(index)
             d1 == [DictSet(dictionary, new_name,
                            [parent |-> parent, tree |-> current_tree,
                             children |-> <<>>])
                    EXCEPT !.registered = Append(@, new_name)]
             d2 == IF parent # ""
                   THEN [d1 EXCEPT !.at[parent].children = Append(@, new_name)]
                   ELSE d1
         IN RenameLoop(trees, index, index + 1, new_name, prefix, d2)

(***************************************************************************)
(* toList (processing.py 134-146).  The stack's top is its last element.   *)
(***************************************************************************)
Reversed(s) == [k \in 1..Len(s) |-> s[Len(s) + 1 - k]]

RECURSIVE Roots(_, _)
Roots(dictionary, k) ==
    IF k > Len(dictionary.keys) THEN <<>>
    ELSE LET key == dictionary.keys[k] IN
         (IF dictionary.at[key].parent = "" THEN <<key>> ELSE <<>>)
             \o Roots(dictionary, k + 1)

RECURSIVE ToListLoop(_, _, _)
ToListLoop(dictionary, stack, result) ==
    IF stack = <<>> THEN result
    ELSE LET current == Last(stack) IN
         ToListLoop(dictionary,
                    SubSeq(stack, 1, Len(stack) - 1)
                        \o Reversed(dictionary.at[current].children),
                    Append(result, current))

toList(dictionary) == ToListLoop(dictionary, Roots(dictionary, 1), <<>>)

(***************************************************************************)
(* Values of the variables an operation does not use.                      *)
(***************************************************************************)
IdleRun ==
    /\ tree1 = <<>> /\ tree2 = <<>> /\ algorithm = ""
    /\ subTreesB = <<>> /\ dictB = EmptyDict
    /\ dictCostsA = <<>> /\ dictCostsB = <<>>
    /\ ListofTreesB = <<>> /\ edit_script = <<>>

IdleWF == stringA = <<>> /\ stringB = <<>> /\ wf = <<>>

IdleDist == treeA = <<>> /\ treeB = <<>> /\ dist = 0

(***************************************************************************)
(* The extractor followed by the indexer, as run() chains them for one     *)
(* input tree (processing.py 191, 193): any non-empty node sequence.       *)
(***************************************************************************)
InitExtract ==
    /\ pc = "subTrees"
    /\ tree1 \in SeqsOf(DepthNodes, 1, MaxTreeLen)
    /\ tree2 = <<>> /\ algorithm = ""
    /\ subTreesA = <<>> /\ subTreesB = <<>>
    /\ dictA = EmptyDict /\ dictB = EmptyDict
    /\ dictCostsA = <<>> /\ dictCostsB = <<>>
    /\ ListofTreesA = <<>> /\ ListofTreesB = <<>> /\ edit_script = <<>>
    /\ IdleWF /\ IdleDist

ExtractOne ==
    /\ pc = "subTrees"
    /\ subTreesA' = subTrees(tree1, subTreesA)
    /\ pc' = "rename"
    /\ UNCHANGED <<tree1, tree2, algorithm, subTreesB, dictA, dictB,
                   dictCostsA, dictCostsB, ListofTreesA, ListofTreesB,
                   edit_script, stringA, stringB, wf, treeA, treeB, dist>>

IndexOne ==
    /\ pc = "rename"
    /\ dictA' = rename(subTreesA, 0, "", "A", dictA)
    /\ pc' = "done"
    /\ UNCHANGED <<tree1, tree2, algorithm, subTreesA, subTreesB, dictB,
                   dictCostsA, dictCostsB, ListofTreesA, ListofTreesB,
                   edit_script, stringA, stringB, wf, treeA, treeB, dist>>

NextExtract == ExtractOne \/ IndexOne

SpecExtract == InitExtract /\ [][NextExtract]_vars

(***************************************************************************)
(* Properties of the extractor and of the indexer run on its output.       *)
(***************************************************************************)
RECURSIVE Concat(_)
Concat(ss) == IF ss = <<>> THEN <<>> ELSE ss[1] \o Concat(Tail(ss))

BaseDepth(fragment) == fragment[1][3]

FirstIsMinimum(tree) == \A k \in 1..Len(tree) : tree[k][3] >= tree[1][3]

\* C3: partition coverage. Once subTrees has run on a non-empty tree, the
\* fragments it appended, concatenated in order, are exactly the input tree
\* (same nodes, same order, none duplicated or dropped), none of them empty.
PartitionCoverage ==
    pc # "subTrees" =>
        /\ Concat(subTreesA) = tree1
        /\ \A k \in 1..Len(subTreesA) : subTreesA[k] # <<>>

\* A tree cut into three fragments, one of them of several nodes.
PartitionCoverageWitness ==
    /\ pc = "rename"
    /\ Len(subTreesA) >= 3
    /\ Len(tree1) > Len(subTreesA)

\* C9: the base depths of the successive fragments of subTrees strictly
\* decrease, so a tree whose first node has the minimum depth yields one
\* fragment, and rename started at index 0 on that output never recurses: it
\* registers the Identity A0 and nothing else.
DecreasingBaseDepths ==
    /\ pc # "subTrees" =>
        /\ \A k \in 1..(Len(subTreesA) - 1) :
               BaseDepth(subTreesA[k + 1]) < BaseDepth(subTreesA[k])
        /\ FirstIsMinimum(tree1) => Len(subTreesA) = 1
    /\ pc = "done" =>
        /\ dictA.registered = <<"A0">>
        /\ dictA.keys = <<"A0">>
        /\ dictA.at["A0"].parent = "" /\ dictA.at["A0"].children = <<>>

\* The indexer has run on a list of three or more fragments.
DecreasingBaseDepthsWitness ==
    /\ pc = "done"
    /\ Len(subTreesA) >= 3
    /\ Len(dictA.registered) = 1

(***************************************************************************)
(* The indexer and the flattener on any fragment list (any sequence of     *)
(* base depths): rename(trees, 0, '', 'A', {}) then toList.                *)
(***************************************************************************)
FragmentUniverse ==
    {<<n>> : n \in NodeUniverse} \cup {<<<<"a", "b", 1>>, <<"b", "0", 2>>>>}

InitIndex ==
    /\ pc = "rename"
    /\ subTreesA \in SeqsOf(FragmentUniverse, 0, MaxFrags)
    /\ dictA = EmptyDict
    /\ ListofTreesA = <<>>
    /\ IdleRun /\ IdleWF /\ IdleDist

IndexAny ==
    /\ pc = "rename"
    /\ dictA' = rename(subTreesA, 0, "", "A", dictA)
    /\ pc' = "toList"
    /\ UNCHANGED <<tree1, tree2, algorithm, subTreesA, subTreesB, dictB,
                   dictCostsA, dictCostsB, ListofTreesA, ListofTreesB,
                   edit_script, stringA, stringB, wf, treeA, treeB, dist>>

Flatten ==
    /\ pc = "toList"
    /\ ListofTreesA' = toList(dictA)
    /\ pc' = "done"
    /\ UNCHANGED <<tree1, tree2, algorithm, subTreesA, subTreesB, dictA,
                   dictB, dictCostsA, dictCostsB, ListofTreesB, edit_script,
                   stringA, stringB, wf, treeA, treeB, dist>>

NextIndex == IndexAny \/ Flatten

SpecIndex == InitIndex /\ [][NextIndex]_vars

Count(s, x) == Cardinality({k \in 1..Len(s) : s[k] = x})

KeySet(d) == {d.keys[k] : k \in 1..Len(d.keys)}

\* C4: identity uniqueness. After rename(trees, 0, '', 'A', {}) on a list of
\* n fragments the dictionary holds exactly the n Identities A0..A(n-1), and
\* every one of them was written exactly once.
IdentityUniqueness ==
    pc # "rename" =>
        /\ KeySet(dictA) = {"A" \o ToString(i) : i \in 0..(Len(subTreesA) - 1)}
        /\ Len(dictA.keys) = Len(subTreesA)
        /\ \A k \in KeySet(dictA) : Count(dictA.registered, k) = 1

\* The two ways the code departs from C4, each on its own.
EveryFragmentIndexed == pc # "rename" => Len(dictA.keys) = Len(subTreesA)

IndexedOnce ==
    pc # "rename" => \A k \in KeySet(dictA) : Count(dictA.registered, k) = 1

\* Occurrences of Identity k in the children list of Identity p.
InChildren(d, p, k) == Count(d.at[p].children, k)

\* C5: forest invariant. After rename every Identity occurs in at most one
\* children list and at most once in it, that list is the one of the Identity
\* recorded as its parent, and a parentless Identity occurs in none.
ForestInvariant ==
    pc # "rename" =>
        \A k \in KeySet(dictA) :
            /\ \A p \in KeySet(dictA) : InChildren(dictA, p, k) <= 1
            /\ Cardinality({p \in KeySet(dictA) : InChildren(dictA, p, k) > 0}) <= 1
            /\ \A p \in KeySet(dictA) :
                   InChildren(dictA, p, k) > 0 => dictA.at[k].parent = p
            /\ dictA.at[k].parent = "" =>
                   \A p \in KeySet(dictA) : InChildren(dictA, p, k) = 0

Position(s, x) == CHOOSE k \in 1..Len(s) : s[k] = x

\* C8: flattener. toList of the map built by rename lists every Identity
\* exactly once, each after its parent, the children of an Identity in their
\* recorded order.
FlattenerPreOrder ==
    pc = "done" =>
        /\ \A k \in KeySet(dictA) : Count(ListofTreesA, k) = 1
        /\ \A k \in KeySet(dictA) :
               dictA.at[k].parent # "" =>
                   Position(ListofTreesA, dictA.at[k].parent)
                       < Position(ListofTreesA, k)
        /\ \A p \in KeySet(dictA) :
               LET ch == dictA.at[p].children IN
               \A i, j \in 1..Len(ch) :
                   i < j => Position(ListofTreesA, ch[i])
                                < Position(ListofTreesA, ch[j])

(***************************************************************************)
(* wagnerFisher and wfCostUpdate (processing.py 11-43).                    *)
(* A Python value passed as a string is [str |-> TRUE, s |-> characters];  *)
(* a value that is not a str (None) is NotAString.                         *)
(***************************************************************************)
Chars == {"a", "b", " "}

Whitespace == {" "}

NotAString == [str |-> FALSE, s |-> <<>>]

StringInputs ==
    {[str |-> TRUE, s |-> c] : c \in SeqsOf(Chars, 0, MaxStrLen)}
        \cup {NotAString}

Abs(n) == IF n < 0 THEN -n ELSE n

\* str.split(): the maximal runs of non-whitespace characters, in order.
RECURSIVE SplitScan(_, _, _, _)
SplitScan(s, k, word, words) ==
    IF k > Len(s) THEN (IF word # <<>> THEN Append(words, word) ELSE words)
    ELSE IF s[k] \in Whitespace
         THEN SplitScan(s, k + 1, <<>>,
                        IF word # <<>> THEN Append(words, word) ELSE words)
         ELSE SplitScan(s, k + 1, Append(word, s[k]), words)

Split(s) == SplitScan(s, 1, <<>>, <<>>)

\* Faulty variant of wfCostUpdate: equal words cost 0, as in the conventional
\* edit distance.
wfCostUpdateZeroMatch(wordA, wordB) ==
    IF wordA = wordB THEN 0 ELSE Abs(Len(wordA) - Len(wordB))

wfCostUpdate(wordA, wordB) ==
    IF wordA = wordB THEN 1 ELSE Abs(Len(wordA) - Len(wordB))

\* Returns <<Dist, Dist[M][N]>>.
wagnerFisher(strA, strB) ==
    LET wordsA == IF strA.str THEN Split(strA.s) ELSE <<>>
        wordsB == IF strB.str THEN Split(strB.s) ELSE <<>>
        M == Len(wordsA)
        N == Len(wordsB)
        Dist[i \in 0..M, j \in 0..N] ==
            IF i = 0 /\ j = 0 THEN 0
            ELSE IF j = 0 THEN Dist[i - 1, 0] + Len(wordsA[i])
            ELSE IF i = 0 THEN Dist[0, j - 1] + Len(wordsB[j])
            ELSE Min3(Dist[i - 1, j - 1] + wfCostUpdate(wordsA[i], wordsB[j]),
                      Dist[i - 1, j] + Len(wordsA[i]),
                      Dist[i, j - 1] + Len(wordsB[j]))
    IN <<Dist, Dist[M, N]>>

InitWF ==
    /\ pc = "wagnerFisher"
    /\ stringA \in StringInputs
    /\ stringB \in StringInputs
    /\ wf = <<>>
    /\ subTreesA = <<>> /\ dictA = EmptyDict /\ ListofTreesA = <<>>
    /\ IdleRun /\ IdleDist

WordDistance ==
    /\ pc = "wagnerFisher"
    /\ wf' = wagnerFisher(stringA, stringB)
    /\ pc' = "done"
    /\ UNCHANGED <<tree1, tree2, algorithm, subTreesA, subTreesB, dictA,
                   dictB, dictCostsA, dictCostsB, ListofTreesA, ListofTreesB,
                   edit_script, stringA, stringB, treeA, treeB, dist>>

NextWF == WordDistance

SpecWF == InitWF /\ [][NextWF]_vars

\* The claim's cost model, stated without the dynamic program: an alignment
\* is a sequence of operations that consumes both word sequences.
AlignOps == {"sub", "del", "ins"}

RECURSIVE AlignCost(_, _, _)
\* Cost of alignment ops of word sequences a and b; Inf if it does not fit.
AlignCost(ops, a, b) ==
    IF ops = <<>> THEN (IF a = <<>> /\ b = <<>> THEN 0 ELSE Inf)
    ELSE LET op == Head(ops) IN
         IF op = "sub"
         THEN IF a = <<>> \/ b = <<>> THEN Inf
              ELSE (IF Head(a) = Head(b) THEN 1
                    ELSE Abs(Len(Head(a)) - Len(Head(b))))
                       + AlignCost(Tail(ops), Tail(a), Tail(b))
         ELSE IF op = "del"
         THEN IF a = <<>> THEN Inf
              ELSE Len(Head(a)) + AlignCost(Tail(ops), Tail(a), b)
         ELSE IF b = <<>> THEN Inf
              ELSE Len(Head(b)) + AlignCost(Tail(ops), a, Tail(b))

MinAlignment(a, b) ==
    LET costs == {AlignCost(ops, a, b) :
                      ops \in SeqsOf(AlignOps, 0, Len(a) + Len(b))}
    IN CHOOSE c \in costs : \A d \in costs : c <= d

WordsOf(x) == IF x.str THEN Split(x.s) ELSE <<>>

RECURSIVE SumLen(_)
SumLen(words) ==
    IF words = <<>> THEN 0 ELSE Len(Head(words)) + SumLen(Tail(words))

StrAB == [str |-> TRUE, s |-> <<"a", " ", "b">>]

\* C6: word distance. The total wagnerFisher returns is the minimum, over all
\* alignments of the two whitespace-split word sequences, of the summed costs
\* (delete or insert w: length(w); substitute a for b: 1 if a = b, else
\* abs(length(a) - length(b))); it is 2 for "a b" against "a b", and against
\* an empty or non-string input it is the sum of the other's word lengths.
WordDistanceIsMinimum ==
    pc = "done" =>
        /\ wf[2] = MinAlignment(WordsOf(stringA), WordsOf(stringB))
        /\ (stringA = StrAB /\ stringB = StrAB) => wf[2] = 2
        /\ WordsOf(stringB) = <<>> => wf[2] = SumLen(WordsOf(stringA))
        /\ WordsOf(stringA) = <<>> => wf[2] = SumLen(WordsOf(stringB))

\* "a b" against "a b" has been computed.
WordDistanceWitness ==
    /\ pc = "done"
    /\ stringA = StrAB /\ stringB = StrAB
    /\ wf[2] = 2

(***************************************************************************)
(* nodeDist and treeDist (processing.py 101-132).                          *)
(***************************************************************************)
\* Faulty variant of nodeDist: the two results of the label comparison are
\* exchanged.
nodeDistInverted(nodeA, nodeB) ==
    IF nodeA = None \/ nodeB = None THEN 1
    ELSE IF nodeA[2] = nodeB[2] THEN 1 ELSE 0

nodeDist(nodeA, nodeB) ==
    IF nodeA = None \/ nodeB = None THEN 1
    ELSE IF IsList(nodeA[2]) \/ IsList(nodeB[2])
         THEN (IF nodeA[2] = nodeB[2] THEN 0 ELSE 1)
         ELSE (IF nodeA[2] = nodeB[2] THEN 0 ELSE 1)

\* costMatrix[i, j] is the Python costMatrix[i-1][j-1].
CostMatrix(fragA, fragB) ==
    LET costMatrix[i \in 1..Len(fragA), j \in 1..Len(fragB)] ==
            LET update_cost == nodeDist(fragA[i], fragB[j])
                delete_cost == nodeDist(fragA[i], None)
                insert_cost == nodeDist(None, fragB[j])
            IN Min3(update_cost,
                    IF i > 1 THEN delete_cost + costMatrix[i - 1, j] ELSE Inf,
                    IF j > 1 THEN insert_cost + costMatrix[i, j - 1] ELSE Inf)
    IN costMatrix

\* Faulty variant of treeDist: the first cell is returned instead of the last.
treeDistFirstCell(fragA, fragB) ==
    IF fragA = <<>> \/ fragB = <<>> THEN Inf
    ELSE CostMatrix(fragA, fragB)[1, 1]

treeDist(fragA, fragB) ==
    IF fragA = <<>> \/ fragB = <<>> THEN Inf
    ELSE CostMatrix(fragA, fragB)[Len(fragA), Len(fragB)]

InitDist ==
    /\ pc = "treeDist"
    /\ treeA \in SeqsOf(DistNodes, 0, MaxFragLen)
    /\ treeB \in SeqsOf(DistNodes, 0, MaxFragLen)
    /\ dist = 0
    /\ subTreesA = <<>> /\ dictA = EmptyDict /\ ListofTreesA = <<>>
    /\ IdleRun /\ IdleWF

TreeDistance ==
    /\ pc = "treeDist"
    /\ dist' = treeDist(treeA, treeB)
    /\ pc' = "done"
    /\ UNCHANGED <<tree1, tree2, algorithm, subTreesA, subTreesB, dictA,
                   dictB, dictCostsA, dictCostsB, ListofTreesA, ListofTreesB,
                   edit_script, stringA, stringB, wf, treeA, treeB>>

NextDist == TreeDistance

SpecDist == InitDist /\ [][NextDist]_vars

\* C7: tree distance. For a non-empty fragment f, treeDist(f, []) and
\* treeDist([], f) are infinite and treeDist(f, f) is 0.
TreeDistEmptyAndSelf ==
    pc = "done" =>
        /\ (treeA # <<>> /\ treeB = <<>>) => dist = Inf
        /\ (treeA = <<>> /\ treeB # <<>>) => dist = Inf
        /\ (treeA # <<>> /\ treeB = treeA) => dist = 0

\* A fragment of several nodes has been measured against itself.
TreeDistEmptyAndSelfWitness ==
    /\ pc = "done"
    /\ Len(treeA) >= 2 /\ treeB = treeA
    /\ dist = 0

\* C10: for non-empty fragments A and B, treeDist(A, B) is the node distance
\* of their last nodes: 0 or 1, and 0 exactly when the labels of the two last
\* nodes are equal, whatever the other nodes are.
TreeDistIsLastNodeDist ==
    (pc = "done" /\ treeA # <<>> /\ treeB # <<>>) =>
        /\ dist = nodeDist(Last(treeA), Last(treeB))
        /\ dist \in {0, 1}
        /\ dist = 0 <=> Last(treeA)[2] = Last(treeB)[2]

\* Fragments that differ everywhere but in the label of their last node.
TreeDistIsLastNodeDistWitness ==
    /\ pc = "done"
    /\ Len(treeA) >= 2 /\ Len(treeB) >= 2 /\ Len(treeA) # Len(treeB)
    /\ treeA[1][2] # treeB[1][2]
    /\ Last(treeA)[2] = Last(treeB)[2]
    /\ dist = 0

(***************************************************************************)
(* calculateCosts (processing.py 89-99).  The inner dict is keyed by       *)
(* str(target_tree); str is one-to-one on fragments, so the fragment       *)
(* itself stands for its string.                                           *)
(***************************************************************************)
calculateCosts(dict_source, trees_target, dict_costs) ==
    [key \in KeySet(dict_source) |->
        [target_tree \in {trees_target[k] : k \in 1..Len(trees_target)} |->
            treeDist(dict_source.at[key].tree, target_tree)]]
        @@ dict_costs

(***************************************************************************)
(* generateEditScript (processing.py 148-178).  An operation is            *)
(* <<kind, source, target>>.  The result is [script, raised]: raised names *)
(* the exception that ended the call, "" when it returned.                 *)
(***************************************************************************)
In(x, list) == \E k \in 1..Len(list) : list[k] = x

\* compare_nodes receives two fragments and indexes them as if they were
\* nodes: nodeA[1] is the fragment's second node, nodeA[3] its fourth.
compare_nodes(nodeA, nodeB, alg, edit_script0) ==
    IF Len(nodeA) < 2 \/ Len(nodeB) < 2
    THEN [script |-> edit_script0, raised |-> "IndexError"]
    ELSE IF nodeA[2] # nodeB[2]
    THEN IF alg = "wagner" /\ Len(nodeA) > 3 /\ Len(nodeB) > 3
         \* wagnerFisher of two nodes (not str) returns the matrix [[0]] as
         \* dist, and "dist > 0" on a list raises TypeError.
         THEN [script |-> edit_script0, raised |-> "TypeError"]
         ELSE [script |-> Append(edit_script0, <<"update", nodeA, nodeB>>),
               raised |-> ""]
    ELSE [script |-> edit_script0, raised |-> ""]

RECURSIVE DeletePass(_, _, _, _, _)
DeletePass(dA, listA, listB, k, script) ==
    IF k > Len(listA) THEN script
    ELSE DeletePass(dA, listA, listB, k + 1,
                    IF ~In(listA[k], listB)
                    THEN Append(script, <<"delete", dA.at[listA[k]].tree, None>>)
                    ELSE script)

\* nodeA is the value the delete pass left in its loop variable.
RECURSIVE InsertPass(_, _, _, _, _, _, _)
InsertPass(dA, dB, listA, listB, alg, k, res) ==
    IF k > Len(listB) \/ res.raised # "" THEN res
    ELSE LET nodeB == listB[k] IN
         InsertPass(dA, dB, listA, listB, alg, k + 1,
                    IF ~In(nodeB, listA)
                    THEN [res EXCEPT !.script =
                              Append(@, <<"insert", None, dB.at[nodeB].tree>>)]
                    ELSE compare_nodes(dA.at[Last(listA)].tree,
                                       dB.at[nodeB].tree, alg, res.script))

process_trees(dA, dB, alg, script) ==
    LET listA == toList(dA)
        listB == toList(dB)
    IN InsertPass(dA, dB, listA, listB, alg, 1,
                  [script |-> DeletePass(dA, listA, listB, 1, script),
                   raised |-> ""])

generateEditScript(dA, dB, alg) == process_trees(dA, dB, alg, <<>>)

(***************************************************************************)
(* run (processing.py 180-206), one action per stage.  The two trees are   *)
(* what preprocess_xml hands over: 3-field nodes under 'nierman', 4-field  *)
(* nodes under 'wagner'; an empty tree makes subTrees raise IndexError.    *)
(***************************************************************************)
Init ==
    /\ pc = "subTrees"
    /\ algorithm \in {"nierman", "wagner"}
    /\ \E base1 \in SeqsOf(NodeUniverse, 0, MaxSourceLen),
          base2 \in SeqsOf(NodeUniverse, 0, MaxTargetLen) :
           /\ tree1 = WithText(base1, algorithm)
           /\ tree2 = WithText(base2, algorithm)
    /\ subTreesA = <<>> /\ subTreesB = <<>>
    /\ dictA = EmptyDict /\ dictB = EmptyDict
    /\ dictCostsA = <<>> /\ dictCostsB = <<>>
    /\ ListofTreesA = <<>> /\ ListofTreesB = <<>>
    /\ edit_script = <<>>
    /\ IdleWF /\ IdleDist

RunSubTrees ==
    /\ pc = "subTrees"
    /\ subTreesA' = IF tree1 # <<>> THEN subTrees(tree1, <<>>) ELSE <<>>
    /\ subTreesB' = IF tree1 # <<>> /\ tree2 # <<>>
                    THEN subTrees(tree2, <<>>) ELSE <<>>
    /\ pc' = IF tree1 = <<>> \/ tree2 = <<>> THEN "IndexError" ELSE "rename"
    /\ UNCHANGED <<tree1, tree2, algorithm, dictA, dictB, dictCostsA,
                   dictCostsB, ListofTreesA, ListofTreesB, edit_script,
                   stringA, stringB, wf, treeA, treeB, dist>>

RunRename ==
    /\ pc = "rename"
    /\ dictA' = rename(subTreesA, 0, "", "A", EmptyDict)
    /\ dictB' = rename(subTreesB, 0, "", "B", EmptyDict)
    /\ pc' = "calculateCosts"
    /\ UNCHANGED <<tree1, tree2, algorithm, subTreesA, subTreesB, dictCostsA,
                   dictCostsB, ListofTreesA, ListofTreesB, edit_script,
                   stringA, stringB, wf, treeA, treeB, dist>>

RunCalculateCosts ==
    /\ pc = "calculateCosts"
    /\ dictCostsA' = calculateCosts(dictA, subTreesB, <<>>)
    /\ dictCostsB' = calculateCosts(dictB, subTreesA, <<>>)
    /\ pc' = "toList"
    /\ UNCHANGED <<tree1, tree2, algorithm, subTreesA, subTreesB, dictA,
                   dictB, ListofTreesA, ListofTreesB, edit_script,
                   stringA, stringB, wf, treeA, treeB, dist>>

RunToList ==
    /\ pc = "toList"
    /\ ListofTreesA' = toList(dictA)
    /\ ListofTreesB' = toList(dictB)
    /\ pc' = "generateEditScript"
    /\ UNCHANGED <<tree1, tree2, algorithm, subTreesA, subTreesB, dictA,
                   dictB, dictCostsA, dictCostsB, edit_script,
                   stringA, stringB, wf, treeA, treeB, dist>>

RunGenerateEditScript ==
    /\ pc = "generateEditScript"
    /\ LET res == generateEditScript(dictA, dictB, algorithm) IN
           /\ edit_script' = res.script
           /\ pc' = IF res.raised = "" THEN "done" ELSE res.raised
    /\ UNCHANGED <<tree1, tree2, algorithm, subTreesA, subTreesB, dictA,
                   dictB, dictCostsA, dictCostsB, ListofTreesA, ListofTreesB,
                   stringA, stringB, wf, treeA, treeB, dist>>

Next ==
    \/ RunSubTrees
    \/ RunRename
    \/ RunCalculateCosts
    \/ RunToList
    \/ RunGenerateEditScript

Spec == Init /\ [][Next]_vars

CountOp(script, kind) ==
    Cardinality({k \in 1..Len(script) : script[k][1] = kind})

\* C1: self-diff. run(t, copy of t, algorithm) on a non-empty tree t, for
\* either algorithm, returns an empty edit script: no update, no delete, no
\* insert.
SelfDiffIsEmpty ==
    (pc = "done" /\ tree1 # <<>> /\ tree2 = tree1) =>
        /\ CountOp(edit_script, "update") = 0
        /\ CountOp(edit_script, "delete") = 0
        /\ CountOp(edit_script, "insert") = 0

C2Source == <<<<"0", "a", 0>>, <<"a", "0", 1>>>>

C2Target == <<<<"0", "a", 0>>, <<"a", "b", 1>>, <<"b", "0", 2>>>>

\* C2: end-to-end scenario. With source [("0","a",0), ("a","0",1)] and target
\* [("0","a",0), ("a","b",1), ("b","0",2)], run returns exactly one insert,
\* of the fragment rooted at b with its terminal marker, no delete and no
\* update.
EndToEndScenario ==
    (pc = "done" /\ tree1 = C2Source /\ tree2 = C2Target) =>
        /\ CountOp(edit_script, "insert") = 1
        /\ CountOp(edit_script, "delete") = 0
        /\ CountOp(edit_script, "update") = 0
        /\ \E k \in 1..Len(edit_script) :
               edit_script[k] = <<"insert", None, SubSeq(C2Target, 2, 3)>>

\* What run returns on C2's input: the whole source deleted, the whole
\* target inserted.
EndToEndActual ==
    (pc = "done" /\ tree1 = C2Source /\ tree2 = C2Target) =>
        edit_script = <<<<"delete", C2Source, None>>,
                        <<"insert", None, C2Target>>>>

\* What run returns on every pair of non-empty trees: only A0 and B0 are ever
\* registered, and the two never match.
RunDeletesAndInserts ==
    pc = "done" =>
        edit_script = <<<<"delete", subTreesA[1], None>>,
                        <<"insert", None, subTreesB[1]>>>>

====
